---- MODULE Spec2Model ----
(***************************************************************************)
(* Model of listenbrainz_spark/recommendations/recording/recommend.py:     *)
(* the ranking query (process_recommendations), the three recommendation   *)
(* generations, the message generator (create_messages) and the entry      *)
(* point (main) with its two persisted dataframes.                         *)
(*                                                                         *)
(* A dataframe is a sequence of rows (records).  The order of the rows of  *)
(* a dataframe is not defined by Spark: wherever the code depends on it    *)
(* (row_number over ties, collect_list, toLocalIterator) the model takes   *)
(* every order.                                                            *)
(***************************************************************************)
EXTENDS Integers, Sequences, FiniteSets, TLC

(***************************************************************************)
(* Bounds and value domains                                                *)
(***************************************************************************)
\* largest number of rows of the prediction dataframe handed to the ranker
MaxPreds == 2
\* largest value of the limit arguments
MaxLimit == 2
\* largest number of rows of a candidate set
MaxCandidates == 2
\* largest number of rows of the recording and recording_discovery tables
MaxTableRows == 2

SparkUserIds == {1, 2}
UserIds == {"u1", "u2"}
RecordingIds == {1, 2}
Mbids == {"a", "b"}
\* recordings that occur in the listening history
ListenedMbids == {"a"}
Scores == {1, 2}
\* latest_listened_at values, milliseconds after 1970-01-01T00:00:00Z
ListenTimes == {1500}
\* values of time.monotonic() - ts_initial, in seconds
ElapsedSeconds == {36, 5400}
NULL == -1

\* the prediction of a cold-start row under coldStartStrategy "nan";
\* Spark SQL orders NaN above every other double and NaN = NaN
NaN == 3

Min(a, b) == IF a <= b THEN a ELSE b

RECURSIVE Perms(_)
\* every order of the elements of the set S, as sequences
Perms(S) ==
    IF S = {} THEN {<<>>}
    ELSE UNION {{<<x>> \o p : p \in Perms(S \ {x})} : x \in S}

RECURSIVE SetToSeq(_)
\* the elements of the set S in one fixed order
SetToSeq(S) ==
    IF S = {} THEN <<>>
    ELSE LET x == CHOOSE y \in S : TRUE IN <<x>> \o SetToSeq(S \ {x})

\* the dataframes of at most max rows drawn from the set rows, one per multiset
\* of rows (the order of the rows of a dataframe carries no information)
Dataframes(rows, max) ==
    LET seq == SetToSeq(rows)
    IN UNION {{[i \in 1..k |-> seq[s[i]]] :
                 s \in {t \in [1..k -> 1..Len(seq)] :
                          \A i \in 1..(k - 1) : t[i] <= t[i + 1]}} : k \in 0..max}

\* the tables of at most max distinct rows drawn from the set rows
Tables(rows, max) ==
    {SetToSeq(T) : T \in {U \in SUBSET rows : Cardinality(U) <= max}}

VARIABLES
    \* ---- arguments of main and the files it reads
    users,                            \* requested user names
    top_artist_candidate_set_df,
    similar_artist_candidate_set_df,
    model,                            \* the loaded ALSModel
    limits,                           \* the three limit arguments
    \* ---- temp views
    recording, recording_discovery, user,
    \* ---- the ranker applied on its own
    recommendation,                   \* temp view "recommendation"
    limit,
    recs_df,                          \* the dataframe process_recommendations returns
    rank_pc,
    \* ---- main
    pc, error,
    recordings_df_storage, users_df_storage,
    active_user_count, total_time,
    top_artist_recs_df, similar_artist_recs_df, raw_recs_df,
    \* ---- the generator create_messages returns
    gen_pc, top_artist_rows, similar_artist_rows, raw_rows,
    user_rec_keys, user_rec,
    top_artist_rec_user_count, similar_artist_rec_user_count, raw_rec_user_count,
    yielded,                          \* number of user_rec items already yielded
    messages,                         \* the messages the consumer received
    reads                             \* reads of the persisted dataframes

inputVars == <<users, top_artist_candidate_set_df, similar_artist_candidate_set_df,
               model, limits>>
viewVars == <<recording, recording_discovery, user>>
rankVars == <<recommendation, limit, recs_df, rank_pc>>
mainVars == <<pc, error, recordings_df_storage, users_df_storage, active_user_count,
              total_time, top_artist_recs_df, similar_artist_recs_df, raw_recs_df>>
genVars == <<gen_pc, top_artist_rows, similar_artist_rows, raw_rows, user_rec_keys,
             user_rec, top_artist_rec_user_count, similar_artist_rec_user_count,
             raw_rec_user_count, yielded, messages, reads>>
vars == <<inputVars, viewVars, rankVars, mainVars, genVars>>

(***************************************************************************)
(* process_recommendations                                                 *)
(***************************************************************************)
\* ORDER BY prediction DESC: row a comes before row b
OrderByPredictionDesc(a, b) == a.prediction > b.prediction

\* row_number() OVER (PARTITION BY spark_user_id ORDER BY prediction DESC):
\* every numbering of each partition by 1..size that respects the order;
\* the order of rows with equal predictions is not determined
RowNumbers(recommendation_df) ==
    LET n == Len(recommendation_df)
        Partition(i) == {j \in 1..n : recommendation_df[j].spark_user_id
                                        = recommendation_df[i].spark_user_id}
    IN {rank \in [1..n -> 1..n] :
          \A i \in 1..n :
             /\ rank[i] <= Cardinality(Partition(i))
             /\ \A j \in Partition(i) \ {i} :
                   /\ rank[j] # rank[i]
                   /\ OrderByPredictionDesc(recommendation_df[i], recommendation_df[j])
                        => rank[i] < rank[j]}

\* WHERE rank <= {limit}
WhereRankStrict(rank, lim) == rank < lim
WhereRank(rank, lim) == rank <= lim

\* JOIN recording r USING (recording_id)
UsingAnyRecording(rm, r) == TRUE
UsingRecordingId(rm, r) == rm.recording_id = r.recording_id

\* JOIN user u USING (spark_user_id)
UsingSparkUserId(rm, u) == rm.spark_user_id = u.spark_user_id

\* LEFT JOIN recording_discovery rd USING (user_id, recording_mbid)
UsingUserIdRecordingMbid(u, r, rd) ==
    u.user_id = rd.user_id /\ r.recording_mbid = rd.recording_mbid

\* date_format(latest_listened_at, "yyyy-MM-dd'T'HH:mm:ss.SSS'Z'"): the text as
\* its fields <<date and minutes, seconds, milliseconds>>, NULL for NULL
DateFormat(ts) ==
    IF ts = NULL THEN <<>>
    ELSE <<"1970-01-01T00:00:", ts \div 1000, ".", ts % 1000, "Z">>

\* the rows of the joins that pass the WHERE clause, as
\* <<recommendation row, recording row, user row, recording_discovery row or 0>>
JoinedRows(recommendation_df, rank, lim) ==
    LET Matches(k, j) == {d \in 1..Len(recording_discovery) :
            UsingUserIdRecordingMbid(user[k], recording[j], recording_discovery[d])}
    IN {t \in (1..Len(recommendation_df)) \X (1..Len(recording)) \X (1..Len(user))
                \X (0..Len(recording_discovery)) :
          /\ UsingRecordingId(recommendation_df[t[1]], recording[t[2]])
          /\ UsingSparkUserId(recommendation_df[t[1]], user[t[3]])
          /\ IF t[4] = 0 THEN Matches(t[3], t[2]) = {}
                         ELSE t[4] \in Matches(t[3], t[2])
          /\ WhereRank(rank[t[1]], lim)}

\* struct(recording_mbid, score, date_format(latest_listened_at, ...))
Struct(recommendation_df, t) ==
    [recording_mbid |-> recording[t[2]].recording_mbid,
     score |-> recommendation_df[t[1]].prediction,
     latest_listened_at |->
        DateFormat(IF t[4] = 0 THEN NULL
                   ELSE recording_discovery[t[4]].latest_listened_at)]

RECURSIVE Arrangements(_)
\* every sequence that holds each x of DOMAIN b exactly b[x] times
Arrangements(b) ==
    IF DOMAIN b = {} THEN {<<>>}
    ELSE UNION {{<<x>> \o s :
                   s \in Arrangements(IF b[x] = 1
                                      THEN [y \in DOMAIN b \ {x} |-> b[y]]
                                      ELSE [b EXCEPT ![x] = @ - 1])} :
                x \in DOMAIN b}

\* collect_list(struct(...)) over one group: the structs of the group's rows
\* in the order the rows reach the aggregation, which is any order
CollectList(recommendation_df, group) ==
    LET structs == {Struct(recommendation_df, t) : t \in group}
        count == [s \in structs |->
                    Cardinality({t \in group : Struct(recommendation_df, t) = s})]
    IN Arrangements(count)

\* (left, right) -> CASE WHEN left.score > right.score THEN -1
\*                       WHEN left.score < right.score THEN 1 ELSE 0 END
ComparatorAscending(left, right) ==
    IF left.score < right.score THEN -1
    ELSE IF left.score > right.score THEN 1 ELSE 0
Comparator(left, right) ==
    IF left.score > right.score THEN -1
    ELSE IF left.score < right.score THEN 1 ELSE 0

RECURSIVE Insert(_, _)
Insert(sorted, x) ==
    IF sorted = <<>> THEN <<x>>
    ELSE IF Comparator(x, Head(sorted)) < 0 THEN <<x>> \o sorted
    ELSE <<Head(sorted)>> \o Insert(Tail(sorted), x)

RECURSIVE ArraySort(_)
\* array_sort(list, comparator): a stable sort by the comparator
ArraySort(list) ==
    IF list = <<>> THEN <<>>
    ELSE Insert(ArraySort(SubSeq(list, 1, Len(list) - 1)), list[Len(list)])

RECURSIVE GroupRows(_, _, _)
\* the result rows [user_id, recs] for the groups of the keys in order
GroupRows(recommendation_df, joined, order) ==
    IF order = <<>> THEN {<<>>}
    ELSE LET k == Head(order)
             group == {t \in joined : user[t[3]].user_id = k}
             recs == {ArraySort(l) : l \in CollectList(recommendation_df, group)}
             rest == GroupRows(recommendation_df, joined, Tail(order))
         IN {<<[user_id |-> k, recs |-> r]>> \o rows : r \in recs, rows \in rest}

\* ... GROUP BY user_id, for one numbering of the rows: every dataframe of rows
\* [user_id, recs] the query can return (one row per user_id, in any order)
GroupByUserId(recommendation_df, joined) ==
    UNION {GroupRows(recommendation_df, joined, order) :
             order \in Perms({user[t[3]].user_id : t \in joined})}

\* process_recommendations(recommendation_df, limit): the set of dataframes the
\* query can evaluate to over the temp views recording, user, recording_discovery
process_recommendations(recommendation_df, lim) ==
    UNION {GroupByUserId(recommendation_df, JoinedRows(recommendation_df, rank, lim)) :
             rank \in RowNumbers(recommendation_df)}

(***************************************************************************)
(* The ranker on its own: process_recommendations applied to a prediction  *)
(* dataframe and temp views drawn from the bounded domains.                *)
(***************************************************************************)
PredictionRows ==
    [spark_user_id : SparkUserIds, recording_id : RecordingIds, prediction : Scores]
RecordingRows == [recording_id : RecordingIds, recording_mbid : Mbids]
DiscoveryRows ==
    [user_id : UserIds, recording_mbid : ListenedMbids, latest_listened_at : ListenTimes]
\* the user view: both users, a user missing, two internal ids of one user
UserViews ==
    {<<[spark_user_id |-> 1, user_id |-> "u1"], [spark_user_id |-> 2, user_id |-> "u2"]>>,
     <<[spark_user_id |-> 1, user_id |-> "u1"]>>,
     <<[spark_user_id |-> 1, user_id |-> "u1"], [spark_user_id |-> 2, user_id |-> "u1"]>>}

\* main and the generator before anything has run
Idle ==
    /\ pc = "idle" /\ error = "none"
    /\ recordings_df_storage = "none" /\ users_df_storage = "none"
    /\ active_user_count = 0 /\ total_time = 0
    /\ top_artist_recs_df = <<>> /\ similar_artist_recs_df = <<>> /\ raw_recs_df = <<>>
    /\ gen_pc = "none"
    /\ top_artist_rows = <<>> /\ similar_artist_rows = <<>> /\ raw_rows = <<>>
    /\ user_rec_keys = <<>> /\ user_rec = <<>>
    /\ top_artist_rec_user_count = 0 /\ similar_artist_rec_user_count = 0
    /\ raw_rec_user_count = 0
    /\ yielded = 0 /\ messages = <<>> /\ reads = {}

RankInit ==
    /\ recommendation \in Dataframes(PredictionRows, MaxPreds)
    /\ limit \in 1..MaxLimit
    /\ recording \in Tables(RecordingRows, MaxTableRows)
    /\ recording_discovery \in Tables(DiscoveryRows, MaxTableRows)
    /\ user \in UserViews
    /\ recs_df = <<>> /\ rank_pc = "call"
    /\ users = {} /\ top_artist_candidate_set_df = <<>>
    /\ similar_artist_candidate_set_df = <<>>
    /\ model = <<>> /\ limits = <<>>
    /\ Idle

\* recommendation_df = process_recommendations(recommendations, limit)
ProcessRecommendations ==
    /\ rank_pc = "call"
    /\ recs_df' \in process_recommendations(recommendation, limit)
    /\ rank_pc' = "returned"
    /\ UNCHANGED <<recommendation, limit, inputVars, viewVars, mainVars, genVars>>

RankNext == ProcessRecommendations
SpecRank == RankInit /\ [][RankNext]_vars

(***************************************************************************)
(* The ALS model (pyspark.ml.recommendation.ALSModel)                      *)
(***************************************************************************)
\* the rating the model predicts for a user it knows
Rating(u, r) == IF u = r THEN 2 ELSE 1

\* model.transform(candidate_set): a prediction for every row; the row of a
\* user the model does not know is dropped (coldStartStrategy "drop") or gets
\* the prediction NaN (coldStartStrategy "nan")
Transform(m, candidate_set) ==
    LET kept == SelectSeq(candidate_set,
                          LAMBDA c : c.spark_user_id \in m.users
                                       \/ m.coldStartStrategy = "nan")
    IN [i \in 1..Len(kept) |->
          [spark_user_id |-> kept[i].spark_user_id,
           recording_id |-> kept[i].recording_id,
           prediction |-> IF kept[i].spark_user_id \in m.users
                          THEN Rating(kept[i].spark_user_id, kept[i].recording_id)
                          ELSE NaN]]

RECURSIVE TopItems(_, _, _)
\* the n best-rated items for the user u, best first
TopItems(u, items, n) ==
    IF n = 0 \/ items = {} THEN <<>>
    ELSE LET best == CHOOSE r \in items :
                        \A q \in items : Rating(u, r) >= Rating(u, q)
         IN <<[recording_id |-> best, rating |-> Rating(u, best)]>>
              \o TopItems(u, items \ {best}, n - 1)

\* model.recommendForUserSubset(users_df.select('spark_user_id'), limit): one
\* row per user the model knows, with its nested top-limit recommendations
RecommendForUserSubset(m, users_df, lim) ==
    LET known == SelectSeq(users_df, LAMBDA u : u.spark_user_id \in m.users)
    IN [i \in 1..Len(known) |->
          [spark_user_id |-> known[i].spark_user_id,
           recommendations |-> TopItems(known[i].spark_user_id, RecordingIds, lim)]]

RECURSIVE Explode(_)
\* SELECT spark_user_id, rec.recording_id, rec.rating AS prediction
\*   FROM (SELECT spark_user_id, explode(recommendations) AS rec ...)
Explode(raw_recommendations) ==
    IF raw_recommendations = <<>> THEN <<>>
    ELSE LET row == Head(raw_recommendations)
         IN [i \in 1..Len(row.recommendations) |->
               [spark_user_id |-> row.spark_user_id,
                recording_id |-> row.recommendations[i].recording_id,
                prediction |-> row.recommendations[i].rating]]
            \o Explode(Tail(raw_recommendations))

(***************************************************************************)
(* The functions main calls.  A function that can raise returns            *)
(* [raise, value]; a dataframe that is the result of the ranking query is  *)
(* kept as its plan [recommendation, limit]: the query is bound to the     *)
(* temp view "recommendation" of the time of the call, and Spark evaluates *)
(* it when an action (toLocalIterator) is called on the dataframe.         *)
(***************************************************************************)
Returns(v) == [raise |-> "none", value |-> v]
Raises(e) == [raise |-> e, value |-> <<>>]

\* get_candidate_set_rdd_for_user(candidate_set_df, users)
get_candidate_set_rdd_for_user(candidate_set_df, users_arg) ==
    LET selected == IF users_arg # {}
                    THEN SelectSeq(candidate_set_df, LAMBDA c : c.user_id \in users_arg)
                    ELSE candidate_set_df
        candidate_set_user_df ==
            [i \in 1..Len(selected) |->
               [spark_user_id |-> selected[i].spark_user_id,
                recording_id |-> selected[i].recording_id]]
    IN IF candidate_set_user_df = <<>>
       THEN Raises("EmptyDataframeExcpetion")
       ELSE Returns(candidate_set_user_df)

\* get_user_name_and_user_id(top_artist_candidate_set_df, users)
get_user_name_and_user_id(candidate_set_df, users_arg) ==
    LET selected == IF users_arg = {}
                    THEN candidate_set_df
                    ELSE SelectSeq(candidate_set_df, LAMBDA c : c.user_id \in users_arg)
        users_df == SetToSeq({[spark_user_id |-> selected[i].spark_user_id,
                               user_id |-> selected[i].user_id] :
                                 i \in 1..Len(selected)})
    IN IF users_df = <<>>
       THEN Raises("EmptyDataframeExcpetion")
       ELSE Returns(users_df)

\* generate_recommendations(candidate_set, model, limit)
generate_recommendations(candidate_set, m, lim) ==
    LET recommendations == Transform(m, candidate_set)
    IN IF recommendations = <<>>
       THEN Raises("RecommendationsNotGeneratedException")
       ELSE Returns([recommendation |-> recommendations, limit |-> lim])

\* get_recommendations_for_candidate_set(model, candidate_set_df, limit, users):
\* both except clauses log and re-raise
get_recommendations_for_candidate_set(m, candidate_set_df, lim, users_arg) ==
    LET candidate_subset == get_candidate_set_rdd_for_user(candidate_set_df, users_arg)
    IN IF candidate_subset.raise # "none"
       THEN candidate_subset
       ELSE generate_recommendations(candidate_subset.value, m, lim)

\* get_raw_recommendations(model, limit, users_df): nothing here raises
get_raw_recommendations(m, lim, users_df) ==
    LET raw_recommendations == RecommendForUserSubset(m, users_df, lim)
        recommendations == Explode(raw_recommendations)
    IN [recommendation |-> recommendations, limit |-> lim]

(***************************************************************************)
(* main                                                                    *)
(***************************************************************************)
model_id == "model-1"
model_html_file == "model-1.html"

CandidateRows ==
    {[spark_user_id |-> 1, recording_id |-> r, user_id |-> "u1"] : r \in RecordingIds}
      \cup {[spark_user_id |-> 2, recording_id |-> r, user_id |-> "u2"] : r \in RecordingIds}

\* the recordings dataframe: complete, or without the metadata of recording 2
RecordingTables ==
    {<<[recording_id |-> 1, recording_mbid |-> "a"],
       [recording_id |-> 2, recording_mbid |-> "b"]>>,
     <<[recording_id |-> 1, recording_mbid |-> "a"]>>}

\* the users argument: nobody (all users), one user, both users
RequestedUsers == {{}, {"u1"}, {"u1", "u2"}}
\* the users the model was trained on: nobody, one user, both users
ModelUsers == {{}, {1}, {1, 2}}

\* the state when main has read its files and loaded the model (line 334)
Init ==
    /\ users \in RequestedUsers
    /\ top_artist_candidate_set_df \in Tables(CandidateRows, MaxCandidates)
    /\ similar_artist_candidate_set_df \in Tables(CandidateRows, MaxCandidates)
    /\ model \in [users : ModelUsers, coldStartStrategy : {"nan", "drop"}]
    /\ \E l \in 1..MaxLimit :
          limits = [top_artist |-> l, similar_artist |-> l, raw |-> l]
    /\ recording \in RecordingTables
    /\ recording_discovery =
          <<[user_id |-> "u1", recording_mbid |-> "a", latest_listened_at |-> 1500]>>
    /\ user = <<>>
    /\ recommendation = <<>> /\ limit = 0 /\ recs_df = <<>> /\ rank_pc = "none"
    /\ pc = "persist_recordings" /\ error = "none"
    /\ recordings_df_storage = "none" /\ users_df_storage = "none"
    /\ active_user_count = 0 /\ total_time = 0
    /\ top_artist_recs_df = <<>> /\ similar_artist_recs_df = <<>> /\ raw_recs_df = <<>>
    /\ gen_pc = "none"
    /\ top_artist_rows = <<>> /\ similar_artist_rows = <<>> /\ raw_rows = <<>>
    /\ user_rec_keys = <<>> /\ user_rec = <<>>
    /\ top_artist_rec_user_count = 0 /\ similar_artist_rec_user_count = 0
    /\ raw_rec_user_count = 0
    /\ yielded = 0 /\ messages = <<>> /\ reads = {}

\* a read of a persisted dataframe, with its storage state at the time
Read(df, storage, by) == [df |-> df, storage |-> storage, by |-> by]

\* lines 337-338: recordings_df.count(); recordings_df.persist()
PersistRecordings ==
    /\ pc = "persist_recordings"
    /\ reads' = reads \cup {Read("recordings_df", recordings_df_storage, "main")}
    /\ recordings_df_storage' = "persisted"
    /\ pc' = "get_users"
    /\ UNCHANGED <<inputVars, viewVars, rankVars, error, users_df_storage,
                   active_user_count, total_time, top_artist_recs_df,
                   similar_artist_recs_df, raw_recs_df, gen_pc, top_artist_rows,
                   similar_artist_rows, raw_rows, user_rec_keys, user_rec,
                   top_artist_rec_user_count, similar_artist_rec_user_count,
                   raw_rec_user_count, yielded, messages>>

\* lines 340-354: users_df, active_user_count, users_df.persist(), view "user"
GetUsers ==
    /\ pc = "get_users"
    /\ LET r == get_user_name_and_user_id(top_artist_candidate_set_df, users)
       IN IF r.raise # "none"
          THEN /\ pc' = "raised" /\ error' = r.raise
               /\ UNCHANGED <<active_user_count, users_df_storage, user, reads>>
          ELSE /\ active_user_count' = Len(r.value)
               /\ reads' = reads \cup {Read("users_df", users_df_storage, "main")}
               /\ users_df_storage' = "persisted"
               /\ user' = r.value
               /\ pc' = "top_artist" /\ UNCHANGED error
    /\ UNCHANGED <<inputVars, recording, recording_discovery, rankVars,
                   recordings_df_storage, total_time, top_artist_recs_df,
                   similar_artist_recs_df, raw_recs_df, gen_pc, top_artist_rows,
                   similar_artist_rows, raw_rows, user_rec_keys, user_rec,
                   top_artist_rec_user_count, similar_artist_rec_user_count,
                   raw_rec_user_count, yielded, messages>>

\* lines 358-363: top_artist_recs_df = get_recommendations_for_candidate_set(...)
TopArtistRecs ==
    /\ pc = "top_artist"
    /\ LET r == get_recommendations_for_candidate_set(
                    model, top_artist_candidate_set_df, limits.top_artist, users)
       IN IF r.raise # "none"
          THEN /\ pc' = "raised" /\ error' = r.raise
               /\ UNCHANGED <<top_artist_recs_df, recommendation>>
          ELSE /\ pc' = "similar_artist" /\ UNCHANGED error
               /\ top_artist_recs_df' = r.value
               /\ recommendation' = r.value.recommendation
    /\ UNCHANGED <<inputVars, viewVars, limit, recs_df, rank_pc,
                   recordings_df_storage, users_df_storage, active_user_count,
                   total_time, similar_artist_recs_df, raw_recs_df, genVars>>

\* lines 364-369: similar_artist_recs_df = get_recommendations_for_candidate_set(...)
SimilarArtistRecs ==
    /\ pc = "similar_artist"
    /\ LET r == get_recommendations_for_candidate_set(
                    model, similar_artist_candidate_set_df, limits.similar_artist, users)
       IN IF r.raise # "none"
          THEN /\ pc' = "raised" /\ error' = r.raise
               /\ UNCHANGED <<similar_artist_recs_df, recommendation>>
          ELSE /\ pc' = "raw" /\ UNCHANGED error
               /\ similar_artist_recs_df' = r.value
               /\ recommendation' = r.value.recommendation
    /\ UNCHANGED <<inputVars, viewVars, limit, recs_df, rank_pc,
                   recordings_df_storage, users_df_storage, active_user_count,
                   total_time, top_artist_recs_df, raw_recs_df, genVars>>

\* line 370: raw_recs_df = get_raw_recommendations(model, limit, users_df)
RawRecs ==
    /\ pc = "raw"
    /\ raw_recs_df' = get_raw_recommendations(model, limits.raw, user)
    /\ recommendation' = raw_recs_df'.recommendation
    /\ pc' = "unpersist_recordings"
    /\ UNCHANGED <<inputVars, viewVars, limit, recs_df, rank_pc, error,
                   recordings_df_storage, users_df_storage, active_user_count,
                   total_time, top_artist_recs_df, similar_artist_recs_df, genVars>>

\* line 375: recordings_df.unpersist()
UnpersistRecordings ==
    /\ pc = "unpersist_recordings"
    /\ recordings_df_storage' = "unpersisted"
    /\ pc' = "create_messages"
    /\ UNCHANGED <<inputVars, viewVars, rankVars, error, users_df_storage,
                   active_user_count, total_time, top_artist_recs_df,
                   similar_artist_recs_df, raw_recs_df, genVars>>

\* lines 377-381: total_time; result = create_messages(...).  create_messages
\* is a generator function: the call makes the generator and runs none of it
CreateMessages ==
    /\ pc = "create_messages"
    /\ total_time' \in ElapsedSeconds
    /\ gen_pc' = "created"
    /\ pc' = "unpersist_users"
    /\ UNCHANGED <<inputVars, viewVars, rankVars, error, recordings_df_storage,
                   users_df_storage, active_user_count, top_artist_recs_df,
                   similar_artist_recs_df, raw_recs_df, top_artist_rows,
                   similar_artist_rows, raw_rows, user_rec_keys, user_rec,
                   top_artist_rec_user_count, similar_artist_rec_user_count,
                   raw_rec_user_count, yielded, messages, reads>>

\* line 383: users_df.unpersist()
UnpersistUsers ==
    /\ pc = "unpersist_users"
    /\ users_df_storage' = "unpersisted"
    /\ pc' = "return"
    /\ UNCHANGED <<inputVars, viewVars, rankVars, error, recordings_df_storage,
                   active_user_count, total_time, top_artist_recs_df,
                   similar_artist_recs_df, raw_recs_df, genVars>>

\* line 385: return result
Return ==
    /\ pc = "return"
    /\ pc' = "returned"
    /\ UNCHANGED <<inputVars, viewVars, rankVars, error, recordings_df_storage,
                   users_df_storage, active_user_count, total_time,
                   top_artist_recs_df, similar_artist_recs_df, raw_recs_df, genVars>>

(***************************************************************************)
(* create_messages: the generator, run by the consumer of main's result    *)
(***************************************************************************)
\* defaultdict(lambda: {"top_artist": [], "similar_artist": [], "raw": []})
DefaultRecs == [top_artist |-> <<>>, similar_artist |-> <<>>, raw |-> <<>>]

\* user_rec[key][source] = recs
SetItemReplacing(rec, key, source, recs) ==
    [k \in DOMAIN rec \cup {key} |->
       IF k = key THEN [DefaultRecs EXCEPT ![source] = recs] ELSE rec[k]]
SetItem(rec, key, source, recs) ==
    [k \in DOMAIN rec \cup {key} |->
       IF k = key
       THEN [(IF key \in DOMAIN rec THEN rec[key] ELSE DefaultRecs) EXCEPT ![source] = recs]
       ELSE rec[k]]

\* <source>_rec_user_count = <source>_rec_user_count + 1
CountRecs(count, row) == count + Len(row.recs)
CountRow(count, row) == count + 1

RECURSIVE Loop(_, _, _)
\* for row in <source>_rec_itr: ...  over the dict st.rec with its keys in
\* insertion order st.keys and the counter st.count
Loop(st, rows, source) ==
    IF rows = <<>> THEN st
    ELSE LET row == Head(rows)
         IN Loop([keys |-> IF row.user_id \in DOMAIN st.rec
                           THEN st.keys ELSE Append(st.keys, row.user_id),
                  rec |-> SetItem(st.rec, row.user_id, source, row.recs),
                  count |-> CountRow(st.count, row)],
                 Tail(rows), source)

\* the reads of the persisted dataframes when the ranking query is evaluated
QueryReads(by) ==
    {Read("recordings_df", recordings_df_storage, by),
     Read("users_df", users_df_storage, by)}

\* lines 207-212: top_artist_recs_df.toLocalIterator() and the loop over it
GenTopArtistLoop ==
    /\ pc = "returned" /\ gen_pc = "created"
    /\ \E rows \in process_recommendations(top_artist_recs_df.recommendation,
                                           top_artist_recs_df.limit) :
          LET st == Loop([keys |-> user_rec_keys, rec |-> user_rec, count |-> 0],
                         rows, "top_artist")
          IN /\ top_artist_rows' = rows
             /\ user_rec_keys' = st.keys /\ user_rec' = st.rec
             /\ top_artist_rec_user_count' = st.count
    /\ reads' = reads \cup QueryReads("top_artist")
    /\ gen_pc' = "similar_artist_loop"
    /\ UNCHANGED <<inputVars, viewVars, rankVars, mainVars, similar_artist_rows,
                   raw_rows, similar_artist_rec_user_count, raw_rec_user_count,
                   yielded, messages>>

\* lines 214-219: similar_artist_recs_df.toLocalIterator() and the loop over it
GenSimilarArtistLoop ==
    /\ pc = "returned" /\ gen_pc = "similar_artist_loop"
    /\ \E rows \in process_recommendations(similar_artist_recs_df.recommendation,
                                           similar_artist_recs_df.limit) :
          LET st == Loop([keys |-> user_rec_keys, rec |-> user_rec, count |-> 0],
                         rows, "similar_artist")
          IN /\ similar_artist_rows' = rows
             /\ user_rec_keys' = st.keys /\ user_rec' = st.rec
             /\ similar_artist_rec_user_count' = st.count
    /\ reads' = reads \cup QueryReads("similar_artist")
    /\ gen_pc' = "raw_loop"
    /\ UNCHANGED <<inputVars, viewVars, rankVars, mainVars, top_artist_rows,
                   raw_rows, top_artist_rec_user_count, raw_rec_user_count,
                   yielded, messages>>

\* lines 221-226: raw_recs_df.toLocalIterator() and the loop over it
GenRawLoop ==
    /\ pc = "returned" /\ gen_pc = "raw_loop"
    /\ \E rows \in process_recommendations(raw_recs_df.recommendation,
                                           raw_recs_df.limit) :
          LET st == Loop([keys |-> user_rec_keys, rec |-> user_rec, count |-> 0],
                         rows, "raw")
          IN /\ raw_rows' = rows
             /\ user_rec_keys' = st.keys /\ user_rec' = st.rec
             /\ raw_rec_user_count' = st.count
    /\ reads' = reads \cup QueryReads("raw")
    /\ gen_pc' = "yield_user"
    /\ UNCHANGED <<inputVars, viewVars, rankVars, mainVars, top_artist_rows,
                   similar_artist_rows, top_artist_rec_user_count,
                   similar_artist_rec_user_count, yielded, messages>>

\* '{:.2f}'.format(total_time / 3600): the text as <<hours, ".", tenths, hundredths>>
FormatHours(seconds) ==
    LET hundredths == (seconds + 18) \div 36
    IN <<hundredths \div 100, ".", (hundredths % 100) \div 10, hundredths % 10>>

\* the for loop over user_rec.items() has yielded every item
AllYieldedEarly(n, keys) == TRUE
AllYielded(n, keys) == n = Len(keys)

\* lines 228-240: yield the message of the next item of user_rec
GenYieldUser ==
    /\ pc = "returned" /\ gen_pc = "yield_user"
    /\ yielded < Len(user_rec_keys)
    /\ LET user_id == user_rec_keys[yielded + 1]
           data == user_rec[user_id]
       IN messages' = Append(messages,
              [user_id |-> user_id,
               type |-> "cf_recommendations_recording_recommendations",
               recommendations |->
                  [top_artist |-> data.top_artist,
                   similar_artist |-> data.similar_artist,
                   raw |-> data.raw,
                   model_id |-> model_id,
                   model_url |-> <<"http://michael.metabrainz.org/", model_html_file>>]])
    /\ yielded' = yielded + 1
    /\ UNCHANGED <<inputVars, viewVars, rankVars, mainVars, gen_pc, top_artist_rows,
                   similar_artist_rows, raw_rows, user_rec_keys, user_rec,
                   top_artist_rec_user_count, similar_artist_rec_user_count,
                   raw_rec_user_count, reads>>

\* lines 242-249: yield the summary message
GenYieldSummary ==
    /\ pc = "returned" /\ gen_pc = "yield_user"
    /\ AllYielded(yielded, user_rec_keys)
    /\ messages' = Append(messages,
          [type |-> "cf_recommendations_recording_mail",
           active_user_count |-> active_user_count,
           top_artist_user_count |-> top_artist_rec_user_count,
           similar_artist_user_count |-> similar_artist_rec_user_count,
           raw_user_count |-> raw_rec_user_count,
           total_time |-> FormatHours(total_time)])
    /\ gen_pc' = "summary_yielded"
    /\ UNCHANGED <<inputVars, viewVars, rankVars, mainVars, top_artist_rows,
                   similar_artist_rows, raw_rows, user_rec_keys, user_rec,
                   top_artist_rec_user_count, similar_artist_rec_user_count,
                   raw_rec_user_count, yielded, reads>>

\* the generator function returns: the consumer's next() raises StopIteration
GenStop ==
    /\ pc = "returned" /\ gen_pc = "summary_yielded"
    /\ gen_pc' = "done"
    /\ UNCHANGED <<inputVars, viewVars, rankVars, mainVars, top_artist_rows,
                   similar_artist_rows, raw_rows, user_rec_keys, user_rec,
                   top_artist_rec_user_count, similar_artist_rec_user_count,
                   raw_rec_user_count, yielded, messages, reads>>

Next ==
    \/ PersistRecordings
    \/ GetUsers
    \/ TopArtistRecs
    \/ SimilarArtistRecs
    \/ RawRecs
    \/ UnpersistRecordings
    \/ CreateMessages
    \/ UnpersistUsers
    \/ Return
    \/ GenTopArtistLoop
    \/ GenSimilarArtistLoop
    \/ GenRawLoop
    \/ GenYieldUser
    \/ GenYieldSummary
    \/ GenStop

Spec == Init /\ [][Next]_vars

(***************************************************************************)
(* Properties of the ranker (checked under SpecRank)                       *)
(***************************************************************************)
RankDone == rank_pc = "returned"

\* n: the number of predictions of the internal user s fed into the ranker
NumPredictions(s) ==
    Cardinality({i \in 1..Len(recommendation) : recommendation[i].spark_user_id = s})

HasIdentity(s) == \E k \in 1..Len(user) : user[k].spark_user_id = s
UserIdOf(s) == user[CHOOSE k \in 1..Len(user) : user[k].spark_user_id = s].user_id

\* the ranked list of the user x in the returned dataframe (empty when x has no row)
RankedList(x) ==
    IF \E i \in 1..Len(recs_df) : recs_df[i].user_id = x
    THEN recs_df[CHOOSE i \in 1..Len(recs_df) : recs_df[i].user_id = x].recs
    ELSE <<>>

HasMetadata(r) == \E j \in 1..Len(recording) : recording[j].recording_id = r

\* every item predicted for the internal user s has an item-metadata row
AllPredictedHaveMetadata(s) ==
    \A i \in 1..Len(recommendation) :
        recommendation[i].spark_user_id = s => HasMetadata(recommendation[i].recording_id)

\* one metadata row per recording_id, one history row per (user_id, recording_mbid),
\* and a one-to-one identity mapping
KeyedTables ==
    /\ \A i, j \in 1..Len(recording) :
          recording[i].recording_id = recording[j].recording_id => i = j
    /\ \A i, j \in 1..Len(recording_discovery) :
          (/\ recording_discovery[i].user_id = recording_discovery[j].user_id
           /\ recording_discovery[i].recording_mbid = recording_discovery[j].recording_mbid)
             => i = j
    /\ \A i, j \in 1..Len(user) :
          (\/ user[i].spark_user_id = user[j].spark_user_id
           \/ user[i].user_id = user[j].user_id) => i = j

\* distinct recording_ids have distinct recording_mbids
InjectiveMetadata ==
    \A i, j \in 1..Len(recording) :
        recording[i].recording_mbid = recording[j].recording_mbid => i = j

\* no (spark_user_id, recording_id) pair is predicted twice
DistinctPredictions ==
    \A i, j \in 1..Len(recommendation) :
        (/\ recommendation[i].spark_user_id = recommendation[j].spark_user_id
         /\ recommendation[i].recording_id = recommendation[j].recording_id) => i = j

\* C1 as stated: the ranked list of every user with n predictions has length
\* exactly min(n, limit).  Stated here for keyed tables only, the inputs most
\* favourable to the claim; it fails there too, so it fails as stated.
Truncation ==
    (RankDone /\ KeyedTables) =>
        \A s \in SparkUserIds :
            HasIdentity(s) =>
                Len(RankedList(UserIdOf(s))) = Min(NumPredictions(s), limit)

\* C1 amended: with keyed tables the ranked list of a user with n predictions
\* has at most min(n, limit) entries (a top-ranked item without item metadata
\* is dropped by the inner join), and exactly min(n, limit) when every item
\* predicted for the user has item metadata.
TruncationWithMetadata ==
    (RankDone /\ KeyedTables) =>
        \A s \in SparkUserIds :
            HasIdentity(s) =>
                /\ Len(RankedList(UserIdOf(s))) <= Min(NumPredictions(s), limit)
                /\ AllPredictedHaveMetadata(s) =>
                      Len(RankedList(UserIdOf(s))) = Min(NumPredictions(s), limit)

\* a user with more predictions than the limit, all with metadata, was
\* truncated to the limit
TruncationWitness ==
    /\ RankDone /\ KeyedTables
    /\ \E s \in SparkUserIds :
          /\ HasIdentity(s) /\ AllPredictedHaveMetadata(s)
          /\ NumPredictions(s) > limit
          /\ Len(RankedList(UserIdOf(s))) = limit

\* C2: every ranked list the ranker returns is non-increasing by score.
Ordering ==
    RankDone =>
        \A i \in 1..Len(recs_df) :
            \A j \in 1..(Len(recs_df[i].recs) - 1) :
                recs_df[i].recs[j].score >= recs_df[i].recs[j + 1].score

\* a returned list whose first two entries have different scores
OrderingWitness ==
    /\ RankDone
    /\ \E i \in 1..Len(recs_df) :
          /\ Len(recs_df[i].recs) >= 2
          /\ recs_df[i].recs[1].score > recs_df[i].recs[2].score

NoRepeatedMbid(recs) ==
    \A i, j \in 1..Len(recs) : recs[i].recording_mbid = recs[j].recording_mbid => i = j

\* C3 as stated: no recording_mbid occurs twice in a ranked list, for any
\* predictions, item-metadata table and listen-history table.  Stated here for
\* keyed tables only, the inputs most favourable to the claim; it fails there
\* too, so it fails as stated.
Uniqueness ==
    (RankDone /\ KeyedTables) =>
        \A i \in 1..Len(recs_df) : NoRepeatedMbid(recs_df[i].recs)

\* C3 amended: no recording_mbid occurs twice in a ranked list when the inputs
\* are keyed: no (user, item) pair is predicted twice, the item metadata has
\* one row per recording_id and distinct recording_mbids for distinct ids, the
\* listen history has one row per (user, recording_mbid) and the identity
\* mapping is one-to-one.
UniquenessOnKeyedInputs ==
    (RankDone /\ KeyedTables /\ InjectiveMetadata /\ DistinctPredictions) =>
        \A i \in 1..Len(recs_df) : NoRepeatedMbid(recs_df[i].recs)

\* keyed inputs that gave a list of two different recordings
UniquenessWitness ==
    /\ RankDone /\ KeyedTables /\ InjectiveMetadata /\ DistinctPredictions
    /\ \E i \in 1..Len(recs_df) :
          /\ Len(recs_df[i].recs) = 2
          /\ recs_df[i].recs[1].recording_mbid # recs_df[i].recs[2].recording_mbid

(***************************************************************************)
(* Properties of create_messages and main (checked under Spec)             *)
(***************************************************************************)
RecsType == "cf_recommendations_recording_recommendations"
MailType == "cf_recommendations_recording_mail"

\* the three loops of the generator have run
Aggregated == gen_pc \in {"yield_user", "summary_yielded", "done"}
\* the generator has yielded all its messages
Exhausted == gen_pc \in {"summary_yielded", "done"}

\* the keys of one ranked source mapping, as it was iterated
SourceUsers(rows) == {rows[i].user_id : i \in 1..Len(rows)}
\* the list a source mapping holds for the user x
SourceList(rows, x) == rows[CHOOSE i \in 1..Len(rows) : rows[i].user_id = x].recs
ListOrEmpty(rows, x) == IF x \in SourceUsers(rows) THEN SourceList(rows, x) ELSE <<>>

AllSourceUsers ==
    SourceUsers(top_artist_rows) \cup SourceUsers(similar_artist_rows)
        \cup SourceUsers(raw_rows)

BundlesOf(x) ==
    {i \in 1..Len(messages) : messages[i].type = RecsType /\ messages[i].user_id = x}

\* C4: for every user that is a key of at least one of the three ranked source
\* mappings, create_messages emits exactly one per-user message; in it a source
\* the user is absent from is an empty list and a source the user is present
\* in carries that source's list.
AggregationCompleteness ==
    Exhausted =>
        \A x \in AllSourceUsers :
            /\ Cardinality(BundlesOf(x)) = 1
            /\ \A i \in BundlesOf(x) :
                  /\ messages[i].recommendations.top_artist
                        = ListOrEmpty(top_artist_rows, x)
                  /\ messages[i].recommendations.similar_artist
                        = ListOrEmpty(similar_artist_rows, x)
                  /\ messages[i].recommendations.raw = ListOrEmpty(raw_rows, x)

\* a user present in the raw source only got a bundle with two empty lists,
\* next to a user present in more than one source
AggregationWitness ==
    /\ Exhausted
    /\ \E x \in SourceUsers(raw_rows) :
          /\ x \notin SourceUsers(top_artist_rows)
          /\ x \notin SourceUsers(similar_artist_rows)
          /\ \E i \in BundlesOf(x) :
                /\ messages[i].recommendations.top_artist = <<>>
                /\ messages[i].recommendations.similar_artist = <<>>
                /\ messages[i].recommendations.raw # <<>>
    /\ \E y \in SourceUsers(top_artist_rows) : y \in SourceUsers(similar_artist_rows)

\* C5: the emitted sequence is one message per user bundle, each carrying the
\* model identity, followed by exactly one summary message: a summary is never
\* followed by another message, and the exhausted generator has emitted one
\* message per user of the source mappings and then the summary.
OutputStreamShape ==
    /\ \A i \in 1..Len(messages) :
          /\ messages[i].type \in {RecsType, MailType}
          /\ messages[i].type = MailType => i = Len(messages) /\ Exhausted
          /\ messages[i].type = RecsType =>
                /\ messages[i].recommendations.model_id = model_id
                /\ messages[i].user_id \in AllSourceUsers
                /\ BundlesOf(messages[i].user_id) = {i}
    /\ Exhausted =>
          /\ Len(messages) = Cardinality(AllSourceUsers) + 1
          /\ messages[Len(messages)].type = MailType

\* an exhausted generator that emitted two user messages and the summary
OutputStreamWitness ==
    /\ gen_pc = "done"
    /\ Len(messages) = 3
    /\ messages[1].type = RecsType /\ messages[2].type = RecsType
    /\ messages[3].type = MailType

\* the number of distinct users with a non-empty ranked list in a source
NonEmptyUsers(rows) ==
    Cardinality({x \in UserIds :
                   \E i \in 1..Len(rows) : rows[i].user_id = x /\ rows[i].recs # <<>>})

\* C7: each per-source user count of the summary message is the number of
\* distinct users with a non-empty ranked list in that source.
SummaryCardinality ==
    \A i \in 1..Len(messages) :
        messages[i].type = MailType =>
            /\ messages[i].top_artist_user_count = NonEmptyUsers(top_artist_rows)
            /\ messages[i].similar_artist_user_count = NonEmptyUsers(similar_artist_rows)
            /\ messages[i].raw_user_count = NonEmptyUsers(raw_rows)

\* a summary with two users in the top-artist source and one in the
\* similar-artist source, after a raw list of two recommendations
SummaryWitness ==
    /\ Exhausted
    /\ messages[Len(messages)].top_artist_user_count = 2
    /\ messages[Len(messages)].similar_artist_user_count = 1
    /\ messages[Len(messages)].raw_user_count >= 1
    /\ \E i \in 1..Len(raw_rows) : Len(raw_rows[i].recs) = 2

\* the fatal conditions of a run, from its inputs
ActiveUsers == get_user_name_and_user_id(top_artist_candidate_set_df, users)
EmptyCandidateSet(candidate_set_df) ==
    get_candidate_set_rdd_for_user(candidate_set_df, users).raise # "none"
NoPredictions(candidate_set_df) ==
    /\ ~EmptyCandidateSet(candidate_set_df)
    /\ Transform(model, get_candidate_set_rdd_for_user(candidate_set_df, users).value)
          = <<>>
NoRawPredictions ==
    /\ ActiveUsers.raise = "none"
    /\ Explode(RecommendForUserSubset(model, ActiveUsers.value, limits.raw)) = <<>>

FatalCondition ==
    \/ ActiveUsers.raise # "none"
    \/ EmptyCandidateSet(top_artist_candidate_set_df)
    \/ EmptyCandidateSet(similar_artist_candidate_set_df)
    \/ NoPredictions(top_artist_candidate_set_df)
    \/ NoPredictions(similar_artist_candidate_set_df)
    \/ NoRawPredictions

\* C6: if a fatal condition occurs in a run (an empty candidate set after
\* restriction, no active users, or zero predictions produced), the run ends
\* with an error, emits no message and never constructs the generator.
FailFastNoPartialOutput ==
    /\ FatalCondition => pc # "returned" /\ gen_pc = "none" /\ messages = <<>>
    /\ pc = "raised" => error # "none" /\ gen_pc = "none" /\ messages = <<>>

\* C8: the recordings cache is released only after all three generations have
\* read it, the users cache only after the per-user messages and the summary
\* have been produced, and no persisted dataframe is read after its release.
ReleaseFollowsLastUse ==
    /\ recordings_df_storage = "unpersisted" => Aggregated
    /\ users_df_storage = "unpersisted" => Exhausted
    /\ \A r \in reads : r.storage # "unpersisted"

\* C9: when a run has ended, by return or by an error, no dataframe is
\* still persisted.
ReleasedOnEveryExit ==
    pc \in {"returned", "raised"} =>
        recordings_df_storage # "persisted" /\ users_df_storage # "persisted"

\* C10: when the raw recommendations flatten to zero prediction rows, the run
\* does not go on past the raw generation: it ends with
\* RecommendationsNotGeneratedException.
RawEmptyFails ==
    (raw_recs_df # <<>> /\ raw_recs_df.recommendation = <<>>) =>
        pc = "raised" /\ error = "RecommendationsNotGeneratedException"

====
